---- MODULE Spec2Model ----
(***************************************************************************)
(* The three backtests of src/taiwan_stock_analyzer.py                     *)
(*   bollinger_strategy_backtest, breakout_strategy_backtest,              *)
(*   intraday_strategy_backtest                                            *)
(* as one state machine: a run is a call on a price table df with an       *)
(* initial capital; one action per length check, per loop iteration and    *)
(* for the code after the loop.                                            *)
(*                                                                         *)
(* Prices, volumes and capital are integers.  Every comparison the code    *)
(* makes against an average, a band or a pivot level is made exactly, by   *)
(* cross-multiplying with the (positive) denominators; a comparison with   *)
(* a value pandas leaves NaN is FALSE, as in Python.  Binary floating-     *)
(* point rounding is not modelled.                                         *)
(***************************************************************************)
EXTENDS Integers, Sequences, FiniteSets, TLC

VARIABLES strategy, df, initial_capital, pc, i,
          position, capital, shares, entry_price, trades, portfolio_values,
          price_cols, runs, first_result,
          stocks, strategy_choice, stock_i, successful_count, failed_count,
          results, batch_pc

\* the caller of the backtests: the windows of the indicator columns on its
\* price_data frame, the number of calls it has made on that frame, and the
\* first result each backtest returned to it
caller_vars == <<price_cols, runs, first_result>>

\* the batch loops: the instruments (the length of each one's price data, 0
\* when there is none, and whether its data makes the backtest raise), the
\* strategy chosen, the loop index, the two counters and the results table
batch_vars == <<stocks, strategy_choice, stock_i, successful_count,
                failed_count, results, batch_pc>>

vars == <<strategy, df, initial_capital, pc, i,
          position, capital, shares, entry_price, trades, portfolio_values,
          price_cols, runs, first_result,
          stocks, strategy_choice, stock_i, successful_count, failed_count,
          results, batch_pc>>

(***************************************************************************)
(* Bounds of the model and the inputs it enumerates                        *)
(***************************************************************************)
\* longest run of free (non-flat) bars placed in an otherwise flat series
MaxTail == 3

Strategies == {"bollinger", "breakout", "intraday"}

InitialCapitals == {7, 29}

\* the bar every series repeats outside its free bars
FlatBar == [High |-> 10, Low |-> 10, Close |-> 10, Volume |-> 1]

\* the free bars: Low <= Close <= High, Volume >= 0
TailBars ==
  { [High |-> 13, Low |-> 10, Close |-> 12, Volume |-> 3],
    [High |-> 12, Low |-> 12, Close |-> 12, Volume |-> 1],
    [High |-> 10, Low |-> 4,  Close |-> 5,  Volume |-> 3],
    [High |-> 5,  Low |-> 4,  Close |-> 4,  Volume |-> 1],
    [High |-> 15, Low |-> 12, Close |-> 14, Volume |-> 3] }

Tails == UNION { [1..k -> TailBars] : k \in 0..MaxTail }

(***************************************************************************)
(* Program constants                                                       *)
(***************************************************************************)
BollingerMinLen == 50      \* bollinger_strategy_backtest: len(df) < 50
BreakoutMinLen == 60       \* breakout_strategy_backtest: len(df) < 60
IntradayMinLen == 20       \* intraday_strategy_backtest: len(df) < 20
MinRows == 10              \* all three: len(df) < 10 after dropna()
window == 20               \* calculate_bollinger_bands(window=20)
num_std == 2               \* calculate_bollinger_bands(num_std=2)
stop_loss_pct == 6         \* breakout_strategy_backtest(stop_loss_pct=6)
take_profit_pct == 15      \* breakout_strategy_backtest(take_profit_pct=15)
volume_threshold_x10 == 12 \* intraday_strategy_backtest(volume_threshold=1.2)

\* variant of MinLen: each length check lets one bar fewer through
MinLenOffByOne(s) ==
  CASE s = "bollinger" -> BollingerMinLen - 1
    [] s = "breakout"  -> BreakoutMinLen - 1
    [] s = "intraday"  -> IntradayMinLen - 1

MinLen(s) ==
  CASE s = "bollinger" -> BollingerMinLen
    [] s = "breakout"  -> BreakoutMinLen
    [] s = "intraday"  -> IntradayMinLen

(***************************************************************************)
(* Rolling windows over df.  Rows are numbered 1..Len(df); row j carries   *)
(* Date = j - 1, the 0-based bar index of the input series.                *)
(***************************************************************************)
\* pandas rolling(window=w): NaN on the first w-1 rows
RollingDefined(j, w) == j >= w /\ j <= Len(df)

\* pandas shift(1): NaN on the first row
ShiftDefined(j) == j >= 2 /\ j <= Len(df)

SumClose(j, w) ==
  LET S[k \in 0..w] == IF k = 0 THEN 0 ELSE S[k-1] + df[j-k+1].Close
  IN  S[w]

SumCloseSq(j, w) ==
  LET S[k \in 0..w] ==
        IF k = 0 THEN 0 ELSE S[k-1] + df[j-k+1].Close * df[j-k+1].Close
  IN  S[w]

SumVolume(j, w) ==
  LET S[k \in 0..w] == IF k = 0 THEN 0 ELSE S[k-1] + df[j-k+1].Volume
  IN  S[w]

MaxHigh(j, w) ==
  LET highs == { df[t].High : t \in (j-w+1)..j }
  IN  CHOOSE m \in highs : \A x \in highs : x <= m

(***************************************************************************)
(* calculate_bollinger_bands: MA, STD (sample, divisor window-1),          *)
(* Upper_Band = MA + num_std*STD, Lower_Band = MA - num_std*STD.           *)
(* With S the window's sum of Close and Q its sum of squares:              *)
(*   MA = S/window,  STD^2 = (window*Q - S^2) / (window*(window-1)).       *)
(***************************************************************************)
BandDefined(j) == RollingDefined(j, window)

\* window*(window-1)*STD^2 from the window's sum S and sum of squares Q
VarScaled(S, Q) == window * Q - S * S

\* x <= Lower_Band[j]   <=>   num_std*STD <= MA - x
LeLowerBand(x, j) ==
  /\ BandDefined(j)
  /\ LET S == SumClose(j, window)
         Q == SumCloseSq(j, window)
         D == S - window * x
     IN  /\ D >= 0
         /\ num_std * num_std * window * VarScaled(S, Q) <= (window - 1) * D * D

\* x > Lower_Band[j]
GtLowerBand(x, j) == BandDefined(j) /\ ~LeLowerBand(x, j)

\* x >= Upper_Band[j]   <=>   x - MA >= num_std*STD
GeUpperBand(x, j) ==
  /\ BandDefined(j)
  /\ LET S == SumClose(j, window)
         Q == SumCloseSq(j, window)
         E == window * x - S
     IN  /\ E >= 0
         /\ num_std * num_std * window * VarScaled(S, Q) <= (window - 1) * E * E

(***************************************************************************)
(* calculate_breakout_indicators: MA20, MA60, MA10, High20, Volume_MA5     *)
(***************************************************************************)
\* x > rolling(w).mean() of Close on row j
GtMA(x, j, w) == RollingDefined(j, w) /\ w * x > SumClose(j, w)

\* x < rolling(w).mean() of Close on row j
LtMA(x, j, w) == RollingDefined(j, w) /\ w * x < SumClose(j, w)

\* x > High20[j]
GtHigh20(x, j) == RollingDefined(j, 20) /\ x > MaxHigh(j, 20)

\* v > Volume_MA5[j]
GtVolumeMA5(v, j) == RollingDefined(j, 5) /\ 5 * v > SumVolume(j, 5)

(***************************************************************************)
(* calculate_intraday_indicators: levels of row j from the previous row's  *)
(* High, Low, Close; each level is kept multiplied by its denominator.     *)
(***************************************************************************)
Prev_High(j) == df[j-1].High
Prev_Low(j) == df[j-1].Low
Prev_Close(j) == df[j-1].Close

\* 3 * PP,  PP = (Prev_High + Prev_Low + Prev_Close) / 3
PP_x3(j) == Prev_High(j) + Prev_Low(j) + Prev_Close(j)

\* 2 * BC,  BC = (Prev_High + Prev_Low) / 2
BC_x2(j) == Prev_High(j) + Prev_Low(j)

\* 6 * TC,  TC = PP * 2 - BC
TC_x6(j) == 4 * PP_x3(j) - 3 * BC_x2(j)

range_hl(j) == Prev_High(j) - Prev_Low(j)

\* 120 * H1,  H1 = Prev_Close + range_hl * 1.1 / 12
H1_x120(j) == 120 * Prev_Close(j) + 11 * range_hl(j)

\* 40 * H3,  H3 = Prev_Close + range_hl * 1.1 / 4
H3_x40(j) == 40 * Prev_Close(j) + 11 * range_hl(j)

\* 120 * L1,  L1 = Prev_Close - range_hl * 1.1 / 12
L1_x120(j) == 120 * Prev_Close(j) - 11 * range_hl(j)

\* 40 * L3,  L3 = Prev_Close - range_hl * 1.1 / 4
L3_x40(j) == 40 * Prev_Close(j) - 11 * range_hl(j)

\* v > Volume_MA10[j] * volume_threshold
GtVolumeMA10(v, j) ==
  RollingDefined(j, 10) /\ 10 * 10 * v > volume_threshold_x10 * SumVolume(j, 10)

(***************************************************************************)
(* df.dropna(): a row is dropped when any column of it is NaN.  The        *)
(* columns each strategy has added decide it; the input columns hold       *)
(* values.  NaN rows are a prefix of df, so the rows kept are a suffix.    *)
(***************************************************************************)
RowComplete(s, j) ==
  CASE s = "bollinger" -> RollingDefined(j, window)
    [] s = "breakout"  -> /\ RollingDefined(j, 20)
                          /\ RollingDefined(j, 60)
                          /\ RollingDefined(j, 10)
                          /\ RollingDefined(j, 5)
    [] s = "intraday"  -> ShiftDefined(j) /\ RollingDefined(j, 10)

\* windows of the columns strategy s adds; shift(1) leaves one NaN row, as a
\* window of 2 does
Windows(s) ==
  CASE s = "bollinger" -> {window}
    [] s = "breakout"  -> {20, 60, 10, 5}
    [] s = "intraday"  -> {2, 10}

\* bar index (0-based) of the first row with every column defined
WarmUp(s) == (CHOOSE w \in Windows(s) : \A v \in Windows(s) : v <= w) - 1

\* the columns calculate_bollinger_bands writes on the frame it is given
\* (it makes no copy); the other two functions work on df.copy()
InPlaceWindows(s) == IF s = "bollinger" THEN {window} ELSE {}

\* windows of the indicator columns of df when dropna() runs: those the
\* frame came with and those the strategy has added
FrameWindows == Windows(strategy) \cup price_cols

\* number of rows dropna() removes: a row is dropped when any column of it
\* is NaN, so the longest window decides
Dropped ==
  LET w == (CHOOSE m \in FrameWindows : \A v \in FrameWindows : v <= m) - 1
  IN  IF Len(df) < w THEN Len(df) ELSE w

\* len(df) after dropna()
NumRows == Len(df) - Dropped

\* position in the input of df.iloc[k] after dropna()
RowIdx(k) == Dropped + k + 1

\* df.iloc[k] after dropna()
Row(k) == df[RowIdx(k)]

\* variant of LoopIndices: the loop also visits the first row kept by dropna()
LoopIndicesFromZero(n) == 0..(n - 1)

\* the loops are "for i in range(1, len(df))"
LoopIndices(n) == 1..(n - 1)

(***************************************************************************)
(* Accounting shared by the three loops                                    *)
(***************************************************************************)
\* shares = capital // current_price   (floor division)
Quantity(c, p) == c \div p

\* variant of OpenedPosition: the open is booked but position is left at 0
OpenedPositionUnset(side) == 0

\* position = 1 after a BUY, position = -1 after a SELL_SHORT
OpenedPosition(side) == side

\* capital += shares * current_price   (SELL and SELL (Final))
LongProceeds(q, p) == q * p

\* variant of ShortReserve: the proceeds of the short sale are credited
ShortReserveCredited(q, p) == -(q * p)

\* "capital -= shares * current_price" on a short entry
ShortReserve(q, p) == q * p

\* variant of CoverProceeds: a cover booked like the sale of a long
CoverProceedsAsSale(q, e, p) == q * p

\* profit = shares * (entry_price - current_price)
\* capital += shares * entry_price + profit   (COVER and COVER (Final))
CoverProceeds(q, e, p) == q * e + q * (e - p)

\* variant of PortfolioValueLong: the shares held are left out of the value
PortfolioValueLongCashOnly(pos, cap, sh, price) == cap

\* Portfolio_Value of bollinger_strategy_backtest and breakout_strategy_backtest
PortfolioValueLong(pos, cap, sh, price) ==
  IF pos = 1 THEN cap + sh * price ELSE cap

\* variant of PortfolioValue: a short valued without the cash reserved at entry
PortfolioValueShortNoReserve(pos, cap, sh, e, price) ==
  IF pos = 1 THEN cap + sh * price
  ELSE IF pos = -1 THEN cap + sh * (e - price)
  ELSE cap

\* Portfolio_Value of intraday_strategy_backtest
PortfolioValue(pos, cap, sh, e, price) ==
  IF pos = 1 THEN cap + sh * price
  ELSE IF pos = -1 THEN cap + sh * e + sh * (e - price)
  ELSE cap

\* a trade record without the 'Return' key
NoReturn == [present |-> FALSE, num |-> 0, den |-> 1]

\* one element of trades; Bollinger events carry no Signal (kept as "")
Trade(date, action, price, q, cap, signal) ==
  [Date |-> date, Action |-> action, Price |-> price,
   Shares |-> q, Capital |-> cap, Signal |-> signal, Return |-> NoReturn]

\* return_pct as the exact fraction num/den:
\* (price - entry_price) / entry_price * 100 on a long,
\* (entry_price - price) / entry_price * 100 on a short
return_pct(action, price, e) ==
  [present |-> TRUE,
   num |-> IF action \in {"SELL", "SELL (Final)"}
           THEN (price - e) * 100 ELSE (e - price) * 100,
   den |-> e]

\* the record of a breakout or intraday close, which has the 'Return' key
ClosingTrade(date, action, price, q, cap, signal) ==
  [Trade(date, action, price, q, cap, signal)
     EXCEPT !.Return = return_pct(action, price, entry_price)]

\* one element of portfolio_values
Snapshot(date, value, price) ==
  [Date |-> date, Portfolio_Value |-> value, Stock_Price |-> price]

\* the local variables a loop iteration may assign
Locals(pos, cap, sh, e, tr) ==
  [position |-> pos, capital |-> cap, shares |-> sh,
   entry_price |-> e, trades |-> tr]

Hold == Locals(position, capital, shares, entry_price, trades)

(***************************************************************************)
(* bollinger_strategy_backtest, one iteration on df.iloc[k]                *)
(***************************************************************************)
\* prev_price <= Lower_Band[i-1] and current_price > Lower_Band[i-1]
BollingerBuySignal(k) ==
  /\ position = 0
  /\ LeLowerBand(Row(k-1).Close, RowIdx(k-1))
  /\ GtLowerBand(Row(k).Close, RowIdx(k-1))

\* variant of BollingerSellSignal: the previous row's upper band
BollingerSellSignalPrevBand(k) ==
  /\ position = 1
  /\ GeUpperBand(Row(k).Close, RowIdx(k-1))

\* current_price >= Upper_Band[i]
BollingerSellSignal(k) ==
  /\ position = 1
  /\ GeUpperBand(Row(k).Close, RowIdx(k))

BollingerStep(k) ==
  LET current_price == Row(k).Close
      q == Quantity(capital, current_price)
  IN  IF BollingerBuySignal(k)
      THEN IF q > 0
           THEN Locals(OpenedPosition(1), capital - q * current_price, q,
                       entry_price,
                       Append(trades,
                              Trade(Row(k).Date, "BUY", current_price, q,
                                    capital - q * current_price, "")))
           ELSE Locals(position, capital, q, entry_price, trades)
      ELSE IF BollingerSellSignal(k)
      THEN Locals(0, capital + LongProceeds(shares, current_price), 0,
                  entry_price,
                  Append(trades,
                         Trade(Row(k).Date, "SELL", current_price, shares,
                               capital + LongProceeds(shares, current_price),
                               "")))
      ELSE Hold

(***************************************************************************)
(* breakout_strategy_backtest, one iteration on df.iloc[k]                 *)
(***************************************************************************)
trend_condition(k) ==
  /\ GtMA(Row(k).Close, RowIdx(k), 20)
  /\ GtMA(Row(k).Close, RowIdx(k), 60)

\* variant of breakout_condition: the signal row's own High20
breakout_condition_own_row(k) == GtHigh20(Row(k).Close, RowIdx(k))

\* current_price > prev_row['High20']
breakout_condition(k) == GtHigh20(Row(k).Close, RowIdx(k-1))

volume_condition(k) == GtVolumeMA5(Row(k).Volume, RowIdx(k))

BreakoutEntrySignal(k) ==
  /\ position = 0
  /\ trend_condition(k) /\ breakout_condition(k) /\ volume_condition(k)

\* current_price <= entry_price * (1 - stop_loss_pct / 100)
StopLoss(k) == 100 * Row(k).Close <= entry_price * (100 - stop_loss_pct)

\* current_price >= entry_price * (1 + take_profit_pct / 100)
TakeProfit(k) == 100 * Row(k).Close >= entry_price * (100 + take_profit_pct)

\* current_price < current_row['MA10']
BelowMA10(k) == LtMA(Row(k).Close, RowIdx(k), 10)

\* variant of BreakoutExitSignal: the trailing exit is tested first
BreakoutExitSignalTrailingFirst(k) ==
  IF BelowMA10(k) THEN "Below MA10"
  ELSE IF StopLoss(k) THEN "Stop Loss"
  ELSE IF TakeProfit(k) THEN "Take Profit"
  ELSE ""

\* the if / elif / elif chain that sets exit_signal
BreakoutExitSignal(k) ==
  IF StopLoss(k) THEN "Stop Loss"
  ELSE IF TakeProfit(k) THEN "Take Profit"
  ELSE IF BelowMA10(k) THEN "Below MA10"
  ELSE ""

BreakoutStep(k) ==
  LET current_price == Row(k).Close
      q == Quantity(capital, current_price)
  IN  IF position = 0
      THEN IF BreakoutEntrySignal(k)
           THEN IF q > 0
                THEN Locals(OpenedPosition(1), capital - q * current_price, q,
                            current_price,
                            Append(trades,
                                   Trade(Row(k).Date, "BUY", current_price, q,
                                         capital - q * current_price,
                                         "Breakout + Volume + Trend")))
                ELSE Locals(position, capital, q, entry_price, trades)
           ELSE Hold
      ELSE IF position = 1
      THEN IF BreakoutExitSignal(k) # ""
           THEN Locals(0, capital + LongProceeds(shares, current_price), 0, 0,
                       Append(trades,
                              ClosingTrade(Row(k).Date, "SELL", current_price, shares,
                                    capital + LongProceeds(shares, current_price),
                                    BreakoutExitSignal(k))))
           ELSE Hold
      ELSE Hold

(***************************************************************************)
(* intraday_strategy_backtest, one iteration on df.iloc[k]                 *)
(***************************************************************************)
\* pd.isna(pp) or pd.isna(bc) or pd.isna(tc)
LevelsNaN(k) == ~ShiftDefined(RowIdx(k))

\* variant of IntradayLongSignal: a long is taken only at or above TC
IntradayLongSignalAboveTC(k) ==
  /\ 6 * Row(k).Close >= TC_x6(RowIdx(k))
  /\ GtVolumeMA10(Row(k).Volume, RowIdx(k))
  /\ 120 * Row(k).High > H1_x120(RowIdx(k))

\* current_price > bc and current_volume > volume_ma * volume_threshold
\* and current_high > h1
IntradayLongSignal(k) ==
  /\ 2 * Row(k).Close > BC_x2(RowIdx(k))
  /\ GtVolumeMA10(Row(k).Volume, RowIdx(k))
  /\ 120 * Row(k).High > H1_x120(RowIdx(k))

\* variant of IntradayShortSignal: the close is compared with BC, not TC
IntradayShortSignalBelowBC(k) ==
  /\ 2 * Row(k).Close < BC_x2(RowIdx(k))
  /\ GtVolumeMA10(Row(k).Volume, RowIdx(k))
  /\ 120 * Row(k).Low < L1_x120(RowIdx(k))

\* current_price < tc and current_volume > volume_ma * volume_threshold
\* and current_low < l1
IntradayShortSignal(k) ==
  /\ 6 * Row(k).Close < TC_x6(RowIdx(k))
  /\ GtVolumeMA10(Row(k).Volume, RowIdx(k))
  /\ 120 * Row(k).Low < L1_x120(RowIdx(k))

\* variant of IntradayLongExitSignal: the stop loss is tested first
IntradayLongExitSignalStopFirst(k) ==
  IF 120 * Row(k).Low <= L1_x120(RowIdx(k)) THEN "L1 stop loss"
  ELSE IF 40 * Row(k).High >= H3_x40(RowIdx(k)) THEN "H3 take profit"
  ELSE IF 3 * Row(k).Close < PP_x3(RowIdx(k)) THEN "below PP stop"
  ELSE ""

\* position == 1: high >= h3, elif low <= l1, elif close < pp
IntradayLongExitSignal(k) ==
  IF 40 * Row(k).High >= H3_x40(RowIdx(k)) THEN "H3 take profit"
  ELSE IF 120 * Row(k).Low <= L1_x120(RowIdx(k)) THEN "L1 stop loss"
  ELSE IF 3 * Row(k).Close < PP_x3(RowIdx(k)) THEN "below PP stop"
  ELSE ""

\* position == -1: low <= l3, elif high >= h1, elif close > pp
IntradayShortExitSignal(k) ==
  IF 40 * Row(k).Low <= L3_x40(RowIdx(k)) THEN "L3 take profit"
  ELSE IF 120 * Row(k).High >= H1_x120(RowIdx(k)) THEN "H1 stop loss"
  ELSE IF 3 * Row(k).Close > PP_x3(RowIdx(k)) THEN "above PP stop"
  ELSE ""

IntradayStep(k) ==
  LET current_price == Row(k).Close
      q == Quantity(capital, current_price)
  IN  IF position = 0
      THEN IF IntradayLongSignal(k)
           THEN IF q > 0
                THEN Locals(OpenedPosition(1), capital - q * current_price, q,
                            current_price,
                            Append(trades,
                                   Trade(Row(k).Date, "BUY", current_price, q,
                                         capital - q * current_price,
                                         "CPR breakout + volume + H1")))
                ELSE Locals(position, capital, q, entry_price, trades)
           ELSE IF IntradayShortSignal(k)
           THEN IF q > 0
                THEN Locals(OpenedPosition(-1),
                            capital - ShortReserve(q, current_price), q,
                            current_price,
                            Append(trades,
                                   Trade(Row(k).Date, "SELL_SHORT",
                                         current_price, q,
                                         capital - ShortReserve(q, current_price),
                                         "CPR breakdown + volume + L1")))
                ELSE Locals(position, capital, q, entry_price, trades)
           ELSE Hold
      ELSE IF position = 1
      THEN IF IntradayLongExitSignal(k) # ""
           THEN Locals(0, capital + LongProceeds(shares, current_price), 0, 0,
                       Append(trades,
                              ClosingTrade(Row(k).Date, "SELL", current_price, shares,
                                    capital + LongProceeds(shares, current_price),
                                    IntradayLongExitSignal(k))))
           ELSE Hold
      ELSE IF position = -1
      THEN IF IntradayShortExitSignal(k) # ""
           THEN Locals(0,
                       capital + CoverProceeds(shares, entry_price, current_price),
                       0, 0,
                       Append(trades,
                              ClosingTrade(Row(k).Date, "COVER", current_price, shares,
                                    capital + CoverProceeds(shares, entry_price,
                                                            current_price),
                                    IntradayShortExitSignal(k))))
           ELSE Hold
      ELSE Hold

(***************************************************************************)
(* The code after the loops: forced liquidation at df.iloc[-1]             *)
(***************************************************************************)
\* df.iloc[-1] after dropna()
LastRow == Row(NumRows - 1)

\* variant of final_price: the close of the first row instead of the last
final_price_first_row == Row(0).Close

final_price == LastRow.Close

(***************************************************************************)
(* Initial states: one call of one backtest.  The series is FlatBar        *)
(* everywhere except for a run of at most MaxTail free bars, placed        *)
(* either on the first rows dropna() keeps or at the end of the series.    *)
(***************************************************************************)
\* input lengths: one below the first length check, and the lengths on
\* both sides of the second check
Lengths(s) ==
  CASE s = "bollinger" -> {window - 1, BollingerMinLen - 1, BollingerMinLen}
    [] s = "breakout"  -> {BreakoutMinLen - 1, BreakoutMinLen + MinRows - 2,
                           BreakoutMinLen + MinRows - 1}
    [] s = "intraday"  -> {IntradayMinLen - 1, IntradayMinLen}

TailPositions(s, n, tail) == {WarmUp(s) + 1, n - Len(tail) + 1}

MakeDf(n, pos, tail) ==
  [j \in 1..n |->
     LET b == IF j >= pos /\ j < pos + Len(tail) THEN tail[j - pos + 1]
              ELSE FlatBar
     IN  [Date |-> j - 1, High |-> b.High, Low |-> b.Low,
          Close |-> b.Close, Volume |-> b.Volume]]

\* variant of WrittenThrough: the backtest is handed price_data itself
WrittenThroughShared(cols, written) == cols \cup written

\* the columns of the caller's price_data after a backtest wrote `written`
\* on the frame it was given: every caller passes price_data.copy(), so
\* the caller's frame keeps its columns
WrittenThrough(cols, written) == cols

\* no result collected yet
NoResult == [call |-> 0]

\* a caller that has made its first call on a frame of raw prices
FirstCall ==
  /\ price_cols = {}
  /\ runs = 1
  /\ first_result = [s \in Strategies |-> NoResult]

\* no batch is running
NoBatch ==
  /\ stocks = << >>
  /\ strategy_choice = ""
  /\ stock_i = 0
  /\ successful_count = 0
  /\ failed_count = 0
  /\ results = << >>
  /\ batch_pc = "idle"

Init ==
  /\ strategy \in Strategies
  /\ \E n \in Lengths(strategy), tail \in Tails :
       \E pos \in TailPositions(strategy, n, tail) :
          df = MakeDf(n, pos, tail)
  /\ initial_capital \in InitialCapitals
  /\ pc = "start"
  /\ i = 0
  /\ position = 0
  /\ capital = initial_capital
  /\ shares = 0
  /\ entry_price = 0
  /\ trades = << >>
  /\ portfolio_values = << >>
  /\ FirstCall
  /\ NoBatch

(***************************************************************************)
(* Actions                                                                 *)
(***************************************************************************)
\* "if df is None or len(df) < N: return None"
ReturnNoneShort ==
  /\ pc = "start"
  /\ Len(df) < MinLen(strategy)
  /\ pc' = "none"
  /\ UNCHANGED <<strategy, df, initial_capital, i, position, capital, shares,
                 entry_price, trades, portfolio_values>>
  /\ UNCHANGED <<caller_vars, batch_vars>>

\* "if len(df) < 10: return None" after dropna()
ReturnNoneRows ==
  /\ pc = "start"
  /\ Len(df) >= MinLen(strategy)
  /\ NumRows < MinRows
  /\ pc' = "none"
  /\ UNCHANGED <<strategy, df, initial_capital, i, position, capital, shares,
                 entry_price, trades, portfolio_values>>
  /\ price_cols' = WrittenThrough(price_cols, InPlaceWindows(strategy))
  /\ UNCHANGED <<runs, first_result, batch_vars>>

\* both checks pass: the loop is entered at its first index
EnterLoop ==
  /\ pc = "start"
  /\ Len(df) >= MinLen(strategy)
  /\ NumRows >= MinRows
  /\ pc' = "loop"
  /\ i' = CHOOSE k \in LoopIndices(NumRows) :
             \A t \in LoopIndices(NumRows) : k <= t
  /\ UNCHANGED <<strategy, df, initial_capital, position, capital, shares,
                 entry_price, trades, portfolio_values>>
  /\ price_cols' = WrittenThrough(price_cols, InPlaceWindows(strategy))
  /\ UNCHANGED <<runs, first_result, batch_vars>>

Assign(st) ==
  /\ position' = st.position
  /\ capital' = st.capital
  /\ shares' = st.shares
  /\ entry_price' = st.entry_price
  /\ trades' = st.trades

\* variant of NextBar: the loop evaluates the same bar again
NextBarRepeated(k) == k

\* for i in range(1, len(df)): the bar after bar k
NextBar(k) == k + 1

BollingerBar ==
  /\ pc = "loop" /\ strategy = "bollinger" /\ i \in LoopIndices(NumRows)
  /\ LET st == BollingerStep(i)
     IN  /\ Assign(st)
         /\ portfolio_values' =
              Append(portfolio_values,
                     Snapshot(Row(i).Date,
                              PortfolioValueLong(st.position, st.capital,
                                                 st.shares, Row(i).Close),
                              Row(i).Close))
  /\ i' = NextBar(i)
  /\ UNCHANGED <<strategy, df, initial_capital, pc>>
  /\ UNCHANGED <<caller_vars, batch_vars>>

BreakoutBar ==
  /\ pc = "loop" /\ strategy = "breakout" /\ i \in LoopIndices(NumRows)
  /\ LET st == BreakoutStep(i)
     IN  /\ Assign(st)
         /\ portfolio_values' =
              Append(portfolio_values,
                     Snapshot(Row(i).Date,
                              PortfolioValueLong(st.position, st.capital,
                                                 st.shares, Row(i).Close),
                              Row(i).Close))
  /\ i' = NextBar(i)
  /\ UNCHANGED <<strategy, df, initial_capital, pc>>
  /\ UNCHANGED <<caller_vars, batch_vars>>

IntradayBar ==
  /\ pc = "loop" /\ strategy = "intraday" /\ i \in LoopIndices(NumRows)
  /\ IF LevelsNaN(i)
     THEN /\ portfolio_values' =
               Append(portfolio_values,
                      Snapshot(Row(i).Date, capital, Row(i).Close))
          /\ UNCHANGED <<position, capital, shares, entry_price, trades>>
     ELSE LET st == IntradayStep(i)
          IN  /\ Assign(st)
              /\ portfolio_values' =
                   Append(portfolio_values,
                          Snapshot(Row(i).Date,
                                   PortfolioValue(st.position, st.capital,
                                                  st.shares, st.entry_price,
                                                  Row(i).Close),
                                   Row(i).Close))
  /\ i' = NextBar(i)
  /\ UNCHANGED <<strategy, df, initial_capital, pc>>
  /\ UNCHANGED <<caller_vars, batch_vars>>

\* the return statement evaluates
\* (capital - initial_capital) / initial_capital * 100, which raises
\* ZeroDivisionError when initial_capital is 0
ReturnOutcome == IF initial_capital = 0 THEN "raised" ELSE "done"

\* bollinger_strategy_backtest after the loop
BollingerReturn ==
  /\ pc = "loop" /\ strategy = "bollinger" /\ i \notin LoopIndices(NumRows)
  /\ IF position = 1
     THEN /\ capital' = capital + LongProceeds(shares, final_price)
          /\ trades' = Append(trades,
                              Trade(LastRow.Date, "SELL (Final)", final_price,
                                    shares,
                                    capital + LongProceeds(shares, final_price),
                                    ""))
     ELSE UNCHANGED <<capital, trades>>
  /\ pc' = ReturnOutcome
  /\ UNCHANGED <<strategy, df, initial_capital, i, position, shares,
                 entry_price, portfolio_values>>
  /\ UNCHANGED <<caller_vars, batch_vars>>

\* breakout_strategy_backtest after the loop
BreakoutReturn ==
  /\ pc = "loop" /\ strategy = "breakout" /\ i \notin LoopIndices(NumRows)
  /\ IF position = 1
     THEN /\ capital' = capital + LongProceeds(shares, final_price)
          /\ trades' = Append(trades,
                              ClosingTrade(LastRow.Date, "SELL (Final)", final_price,
                                    shares,
                                    capital + LongProceeds(shares, final_price),
                                    "Final Exit"))
     ELSE UNCHANGED <<capital, trades>>
  /\ pc' = ReturnOutcome
  /\ UNCHANGED <<strategy, df, initial_capital, i, position, shares,
                 entry_price, portfolio_values>>
  /\ UNCHANGED <<caller_vars, batch_vars>>

\* variant of StillOpen: only a long position counts as open
StillOpenLongOnly(pos) == pos = 1

\* "if position != 0:" after the intraday loop
StillOpen(pos) == pos # 0

\* intraday_strategy_backtest after the loop
IntradayReturn ==
  /\ pc = "loop" /\ strategy = "intraday" /\ i \notin LoopIndices(NumRows)
  /\ IF StillOpen(position)
     THEN IF position = 1
          THEN /\ capital' = capital + LongProceeds(shares, final_price)
               /\ trades' = Append(trades,
                                   ClosingTrade(LastRow.Date, "SELL (Final)",
                                         final_price, shares,
                                         capital + LongProceeds(shares,
                                                                final_price),
                                         "Final Exit"))
          ELSE /\ capital' = capital + CoverProceeds(shares, entry_price,
                                                     final_price)
               /\ trades' = Append(trades,
                                   ClosingTrade(LastRow.Date, "COVER (Final)",
                                         final_price, shares,
                                         capital + CoverProceeds(shares,
                                                                 entry_price,
                                                                 final_price),
                                         "Final Exit"))
     ELSE UNCHANGED <<capital, trades>>
  /\ pc' = ReturnOutcome
  /\ UNCHANGED <<strategy, df, initial_capital, i, position, shares,
                 entry_price, portfolio_values>>
  /\ UNCHANGED <<caller_vars, batch_vars>>

Next ==
  \/ ReturnNoneShort
  \/ ReturnNoneRows
  \/ EnterLoop
  \/ BollingerBar
  \/ BreakoutBar
  \/ IntradayBar
  \/ BollingerReturn
  \/ BreakoutReturn
  \/ IntradayReturn

Spec == Init /\ [][Next]_vars

(***************************************************************************)
(* Calls of one backtest on series around another price level              *)
(***************************************************************************)
TailsOf(bars) == UNION { [1..k -> bars] : k \in 0..MaxTail }

\* a series of n bars: flat everywhere except for the bars of tail, which
\* start at row pos
MakeSeries(n, pos, tail, flat) ==
  [j \in 1..n |->
     LET b == IF j >= pos /\ j < pos + Len(tail) THEN tail[j - pos + 1]
              ELSE flat
     IN  [Date |-> j - 1, High |-> b.High, Low |-> b.Low,
          Close |-> b.Close, Volume |-> b.Volume]]

\* the locals of a backtest before its loop
StartOfCall ==
  /\ pc = "start"
  /\ i = 0
  /\ position = 0
  /\ capital = initial_capital
  /\ shares = 0
  /\ entry_price = 0
  /\ trades = << >>
  /\ portfolio_values = << >>

\* breakout_strategy_backtest on series around 100: a bar that breaks out
\* with volume, and bars that hold, fall below MA10 only, hit the stop
\* loss, and hit the take profit of an entry at 101
BreakoutFlatBar == [High |-> 100, Low |-> 100, Close |-> 100, Volume |-> 1]

BreakoutBars ==
  { [High |-> 102, Low |-> 100, Close |-> 101, Volume |-> 3],
    [High |-> 101, Low |-> 101, Close |-> 101, Volume |-> 1],
    [High |-> 97,  Low |-> 96,  Close |-> 96,  Volume |-> 1],
    [High |-> 95,  Low |-> 94,  Close |-> 94,  Volume |-> 1],
    [High |-> 117, Low |-> 116, Close |-> 117, Volume |-> 1] }

BreakoutCapitals == {250}

InitBreakout ==
  /\ strategy = "breakout"
  /\ \E n \in Lengths("breakout"), tail \in TailsOf(BreakoutBars) :
       \E pos \in TailPositions("breakout", n, tail) :
          df = MakeSeries(n, pos, tail, BreakoutFlatBar)
  /\ initial_capital \in BreakoutCapitals
  /\ StartOfCall
  /\ FirstCall
  /\ NoBatch

NextBreakout ==
  \/ ReturnNoneShort
  \/ ReturnNoneRows
  \/ EnterLoop
  \/ BreakoutBar
  \/ BreakoutReturn

SpecBreakout == InitBreakout /\ [][NextBreakout]_vars

\* calls with a non-positive initial_capital, on the series of Init
NonPositiveCapitals == {0, -5}

InitNonPositive ==
  /\ strategy \in Strategies
  /\ \E n \in Lengths(strategy), tail \in Tails :
       \E pos \in TailPositions(strategy, n, tail) :
          df = MakeDf(n, pos, tail)
  /\ initial_capital \in NonPositiveCapitals
  /\ StartOfCall
  /\ FirstCall
  /\ NoBatch

SpecNonPositive == InitNonPositive /\ [][Next]_vars

\* bollinger_strategy_backtest on the dip-and-rebound series: 20 bars at
\* 100, one bar at 90, one at 95, then free bars, then bars at 95 up to
\* the length of the series
ScenarioFlatBar == [High |-> 100, Low |-> 100, Close |-> 100, Volume |-> 1]

DipBar == [High |-> 90, Low |-> 90, Close |-> 90, Volume |-> 1]

ReboundBar == [High |-> 95, Low |-> 95, Close |-> 95, Volume |-> 1]

ScenarioBars ==
  { ReboundBar,
    [High |-> 105, Low |-> 105, Close |-> 105, Volume |-> 1] }

ScenarioLengths == {window + 5, BollingerMinLen, BollingerMinLen + 1}

DipAndRebound(n, tail) ==
  [j \in 1..n |->
     LET b == IF j <= window THEN ScenarioFlatBar
              ELSE IF j = window + 1 THEN DipBar
              ELSE IF j = window + 2 THEN ReboundBar
              ELSE IF j - (window + 2) <= Len(tail)
                   THEN tail[j - (window + 2)]
              ELSE ReboundBar
     IN  [Date |-> j - 1, High |-> b.High, Low |-> b.Low,
          Close |-> b.Close, Volume |-> b.Volume]]

ScenarioCapitals == {1000}

InitBollingerScenario ==
  /\ strategy = "bollinger"
  /\ \E n \in ScenarioLengths, tail \in TailsOf(ScenarioBars) :
        df = DipAndRebound(n, tail)
  /\ initial_capital \in ScenarioCapitals
  /\ StartOfCall
  /\ FirstCall
  /\ NoBatch

NextBollingerScenario ==
  \/ ReturnNoneShort
  \/ EnterLoop
  \/ BollingerBar
  \/ BollingerReturn

SpecBollingerScenario == InitBollingerScenario /\ [][NextBollingerScenario]_vars

\* breakout_strategy_backtest on flat series at 50 that end in (or carry
\* after the warm-up) bars at 60, with triple or with plain volume
BreakoutScenarioFlatBar ==
  [High |-> 50, Low |-> 50, Close |-> 50, Volume |-> 1]

BreakoutScenarioBar ==
  [High |-> 60, Low |-> 60, Close |-> 60, Volume |-> 3]

BreakoutScenarioBars ==
  { BreakoutScenarioBar,
    [High |-> 60, Low |-> 60, Close |-> 60, Volume |-> 1],
    [High |-> 50, Low |-> 50, Close |-> 50, Volume |-> 3] }

BreakoutScenarioLengths ==
  {BreakoutMinLen - 1, BreakoutMinLen + 2, BreakoutMinLen + MinRows - 1}

InitBreakoutScenario ==
  /\ strategy = "breakout"
  /\ \E n \in BreakoutScenarioLengths, tail \in TailsOf(BreakoutScenarioBars) :
       \E pos \in TailPositions("breakout", n, tail) :
          df = MakeSeries(n, pos, tail, BreakoutScenarioFlatBar)
  /\ initial_capital \in BreakoutCapitals
  /\ StartOfCall
  /\ FirstCall
  /\ NoBatch

SpecBreakoutScenario == InitBreakoutScenario /\ [][NextBreakout]_vars

(***************************************************************************)
(* A caller that runs several backtests on one price_data frame, as the    *)
(* multi-strategy comparison of execute_batch_backtest does                *)
(***************************************************************************)
\* number of calls a caller makes on its frame
MaxRuns == 3

\* longest run of free bars in the caller's series
MaxSessionTail == 2

SessionBars ==
  { [High |-> 13, Low |-> 10, Close |-> 12, Volume |-> 3],
    [High |-> 10, Low |-> 4,  Close |-> 5,  Volume |-> 3] }

SessionTails == UNION { [1..k -> SessionBars] : k \in 0..MaxSessionTail }

SessionLengths ==
  {BreakoutMinLen - 1, BreakoutMinLen, BreakoutMinLen + MinRows - 1}

SessionPositions(n, tail) == {WarmUp("intraday") + 2, n - Len(tail) + 1}

SessionCapitals == {29}

\* what the call has returned: the result dict (total_return is kept as
\* its numerator, the denominator being initial_capital), None, or an
\* exception
CurrentResult ==
  IF pc = "done"
  THEN [kind |-> "result", final_capital |-> capital,
        total_return_x_capital |-> (capital - initial_capital) * 100,
        trades |-> trades, portfolio_values |-> portfolio_values,
        rows |-> NumRows]
  ELSE IF pc = "none" THEN [kind |-> "None"]
  ELSE [kind |-> "raised"]

\* variant of StartingCapital: the cash left by the previous call
StartingCapitalCarried(left, given) == left

\* "capital = initial_capital" at the top of each backtest
StartingCapital(left, given) == given

\* the caller keeps the result and calls backtest s on price_data.copy()
\* with the same parameters; the callee sets up its locals afresh
CallNext(s) ==
  /\ pc \in {"done", "none", "raised"}
  /\ runs < MaxRuns
  /\ first_result' =
       IF first_result[strategy] = NoResult
       THEN [first_result EXCEPT
               ![strategy] = [call |-> runs, value |-> CurrentResult]]
       ELSE first_result
  /\ runs' = runs + 1
  /\ strategy' = s
  /\ pc' = "start"
  /\ i' = 0
  /\ position' = 0
  /\ capital' = StartingCapital(capital, initial_capital)
  /\ shares' = 0
  /\ entry_price' = 0
  /\ trades' = << >>
  /\ portfolio_values' = << >>
  /\ UNCHANGED <<df, initial_capital, price_cols, batch_vars>>

InitSession ==
  /\ strategy \in Strategies
  /\ \E n \in SessionLengths, tail \in SessionTails :
       \E pos \in SessionPositions(n, tail) :
          df = MakeDf(n, pos, tail)
  /\ initial_capital \in SessionCapitals
  /\ StartOfCall
  /\ FirstCall
  /\ NoBatch

NextSession ==
  \/ ReturnNoneShort
  \/ ReturnNoneRows
  \/ EnterLoop
  \/ BollingerBar
  \/ BreakoutBar
  \/ IntradayBar
  \/ BollingerReturn
  \/ BreakoutReturn
  \/ IntradayReturn
  \/ \E s \in Strategies : CallNext(s)

SpecSession == InitSession /\ [][NextSession]_vars

(***************************************************************************)
(* The batch loops: batch_backtest (batch_backtest.py, Bollinger only) and *)
(* execute_batch_backtest (one strategy, or the comparison of all three).  *)
(* An instrument is the length of its price data (0: no data) and whether  *)
(* its data makes a backtest raise; one action is one iteration.           *)
(***************************************************************************)
\* longest list of instruments
MaxStocks == 2

StockLengths ==
  {0, BollingerMinLen - 1, BreakoutMinLen - 1, BreakoutMinLen,
   BreakoutMinLen + MinRows - 1}

Stocks == [len : StockLengths, raises : BOOLEAN]

StockLists == UNION { [1..k -> Stocks] : k \in 0..MaxStocks }

StrategyChoices == Strategies \cup {"multi"}

BatchCapitals == {29}

\* what a backtest does on an instrument's data: it raises, returns None
\* (either length check), or returns a result
BacktestOutcome(s, stock) ==
  IF stock.raises THEN "raised"
  ELSE IF stock.len < MinLen(s) \/ stock.len - WarmUp(s) < MinRows
       THEN "None"
  ELSE "result"

\* the row a result adds to the results table
ResultRow(k, s) == [stock |-> k, strategy |-> s]

\* the rows of the comparison mode: one per backtest that returned a result
ComparisonRows(k, stock) ==
  LET row(s) == IF BacktestOutcome(s, stock) = "result"
                THEN << ResultRow(k, s) >> ELSE << >>
  IN  row("bollinger") \o row("breakout") \o row("intraday")

\* no backtest call is in progress
NoCall ==
  /\ strategy = "bollinger"
  /\ df = << >>
  /\ pc = "idle"
  /\ i = 0
  /\ position = 0
  /\ capital = initial_capital
  /\ shares = 0
  /\ entry_price = 0
  /\ trades = << >>
  /\ portfolio_values = << >>

call_vars == <<strategy, df, initial_capital, pc, i, position, capital,
               shares, entry_price, trades, portfolio_values>>

Counted(ok) ==
  /\ successful_count' = IF ok THEN successful_count + 1 ELSE successful_count
  /\ failed_count' = IF ok THEN failed_count ELSE failed_count + 1

\* batch_backtest: one iteration of "for i, file_path in enumerate(...)"
BatchBacktestIteration ==
  /\ batch_pc = "batch_backtest"
  /\ stock_i <= Len(stocks)
  /\ LET stock == stocks[stock_i]
     IN  IF stock.len < BollingerMinLen
         THEN Counted(FALSE) /\ UNCHANGED results
         ELSE IF BacktestOutcome("bollinger", stock) = "result"
         THEN /\ Counted(TRUE)
              /\ results' = Append(results, ResultRow(stock_i, "bollinger"))
         ELSE Counted(FALSE) /\ UNCHANGED results
  /\ stock_i' = stock_i + 1
  /\ UNCHANGED <<call_vars, caller_vars, stocks, strategy_choice, batch_pc>>

\* execute_batch_backtest: one iteration of
\* "for i, stock_code in enumerate(available_for_backtest)"
ExecuteBatchIteration ==
  /\ batch_pc = "execute_batch_backtest"
  /\ stock_i <= Len(stocks)
  /\ LET stock == stocks[stock_i]
     IN  IF stock.len < BreakoutMinLen
         THEN Counted(FALSE) /\ UNCHANGED results
         ELSE IF strategy_choice = "multi"
         THEN IF stock.raises
              THEN Counted(FALSE) /\ UNCHANGED results
              ELSE /\ Counted(TRUE)
                   /\ results' = results \o ComparisonRows(stock_i, stock)
         ELSE IF BacktestOutcome(strategy_choice, stock) = "result"
         THEN /\ Counted(TRUE)
              /\ results' = Append(results,
                                   ResultRow(stock_i, strategy_choice))
         ELSE Counted(FALSE) /\ UNCHANGED results
  /\ stock_i' = stock_i + 1
  /\ UNCHANGED <<call_vars, caller_vars, stocks, strategy_choice, batch_pc>>

\* the loop has run out of instruments
BatchFinish ==
  /\ batch_pc \in {"batch_backtest", "execute_batch_backtest"}
  /\ stock_i > Len(stocks)
  /\ batch_pc' = "finished"
  /\ UNCHANGED <<call_vars, caller_vars, stocks, strategy_choice, stock_i,
                 successful_count, failed_count, results>>

InitBatch ==
  /\ initial_capital \in BatchCapitals
  /\ NoCall
  /\ FirstCall
  /\ stocks \in StockLists
  /\ \/ batch_pc = "batch_backtest" /\ strategy_choice = "bollinger"
     \/ batch_pc = "execute_batch_backtest"
          /\ strategy_choice \in StrategyChoices
  /\ stock_i = 1
  /\ successful_count = 0
  /\ failed_count = 0
  /\ results = << >>

NextBatch ==
  \/ BatchBacktestIteration
  \/ ExecuteBatchIteration
  \/ BatchFinish

SpecBatch == InitBatch /\ [][NextBatch]_vars

\* intraday_strategy_backtest on series around 100.  The free bars, in
\* order: a previous bar with PP = BC = TC = 100 and a bar that breaks
\* below its levels; a previous bar with BC = 100 < TC = 104, a bar closing
\* between the two that is above H1 and below L1, and one that is below L1
\* only; a bar that keeps a long opened at 102, a bar that opens a short
\* at 92, one that takes it above PP only, and one that keeps it
IntradayFlatBar == [High |-> 100, Low |-> 100, Close |-> 100, Volume |-> 1]

IntradayBars ==
  { [High |-> 110, Low |-> 90,  Close |-> 100, Volume |-> 1],
    [High |-> 99,  Low |-> 97,  Close |-> 98,  Volume |-> 3],
    [High |-> 110, Low |-> 90,  Close |-> 106, Volume |-> 1],
    [High |-> 108, Low |-> 100, Close |-> 102, Volume |-> 3],
    [High |-> 103, Low |-> 102, Close |-> 102, Volume |-> 3],
    [High |-> 104, Low |-> 102, Close |-> 104, Volume |-> 1],
    [High |-> 100, Low |-> 80,  Close |-> 92,  Volume |-> 3],
    [High |-> 93,  Low |-> 91,  Close |-> 92,  Volume |-> 1],
    [High |-> 90,  Low |-> 88,  Close |-> 89,  Volume |-> 1] }

IntradayCapitals == {250, 90}

InitIntraday ==
  /\ strategy = "intraday"
  /\ \E n \in Lengths("intraday"), tail \in TailsOf(IntradayBars) :
       \E pos \in TailPositions("intraday", n, tail) :
          df = MakeSeries(n, pos, tail, IntradayFlatBar)
  /\ initial_capital \in IntradayCapitals
  /\ StartOfCall
  /\ FirstCall
  /\ NoBatch

NextIntraday ==
  \/ ReturnNoneShort
  \/ EnterLoop
  \/ IntradayBar
  \/ IntradayReturn

SpecIntraday == InitIntraday /\ [][NextIntraday]_vars

\* the value returned under 'final_capital'
final_capital == capital

TypeOK ==
  /\ strategy \in Strategies
  /\ pc \in {"start", "loop", "done", "none", "raised", "idle"}
  /\ position \in {-1, 0, 1}
  /\ i \in 0..Len(df)

(***************************************************************************)
(* Vocabulary of the properties                                            *)
(***************************************************************************)
IsOpen(t) == t.Action \in {"BUY", "SELL_SHORT"}

IsForcedClose(t) == t.Action \in {"SELL (Final)", "COVER (Final)"}

IsLongClose(t) == t.Action \in {"SELL", "SELL (Final)"}

IsShortClose(t) == t.Action \in {"COVER", "COVER (Final)"}

IsClose(t) == IsLongClose(t) \/ IsShortClose(t)

LastTrade == trades[Len(trades)]

LastSnapshot == portfolio_values[Len(portfolio_values)]

\* the last bar of the input series
LastBar == df[Len(df)]

\* C1: in every prefix of the trade list no open event (BUY, SELL_SHORT) is
\* directly followed by another open event, so two opens always have a close
\* between them.
C1_SinglePosition ==
  \A k \in 1..(Len(trades) - 1) :
     ~(IsOpen(trades[k]) /\ IsOpen(trades[k+1]))

\* a position was opened, closed, and a new one opened on a later bar
C1_Witness ==
  /\ Len(trades) >= 3
  /\ IsOpen(trades[1]) /\ IsClose(trades[2]) /\ IsOpen(trades[3])

\* C2: when a run has returned, a position left open by the loop means the
\* last event is the forced close of that side, dated at the last bar of the
\* series and priced at its close; a flat run has no forced close at all.
C2_ForcedLiquidation ==
  pc = "done" =>
    IF position # 0
    THEN /\ Len(trades) > 0
         /\ LastTrade.Action =
              (IF position = 1 THEN "SELL (Final)" ELSE "COVER (Final)")
         /\ LastTrade.Date = LastBar.Date
         /\ LastTrade.Price = LastBar.Close
    ELSE \A k \in 1..Len(trades) : ~IsForcedClose(trades[k])

\* a run returned through a forced close, on a series whose last close
\* differs from the close of the first row kept by dropna()
C2_Witness ==
  /\ pc = "done"
  /\ position # 0
  /\ IsForcedClose(LastTrade)
  /\ LastBar.Close # Row(0).Close

\* realized P&L of the round trips of a trade list: each close event is
\* paired with the event before it, its open
RealizedPnL(tr) ==
  LET P[k \in 0..Len(tr)] ==
        IF k = 0 THEN 0
        ELSE IF k >= 2 /\ IsLongClose(tr[k])
             THEN P[k-1] + tr[k].Shares * (tr[k].Price - tr[k-1].Price)
        ELSE IF k >= 2 /\ IsShortClose(tr[k])
             THEN P[k-1] + tr[k].Shares * (tr[k-1].Price - tr[k].Price)
        ELSE P[k-1]
  IN  P[Len(tr)]

\* C3: when a run has returned, final_capital is initial_capital plus the
\* realized P&L of all close and forced-close events, quantity*(exit - entry)
\* for a long and quantity*(entry - exit) for a short.
C3_CapitalConservation ==
  pc = "done" => final_capital = initial_capital + RealizedPnL(trades)

\* a run returned after a short round trip closed at a price other than its
\* entry price
C3_Witness ==
  /\ pc = "done"
  /\ \E k \in 2..Len(trades) :
        IsShortClose(trades[k]) /\ trades[k].Price # trades[k-1].Price

\* C4: when a run has returned, the Portfolio_Value of the last snapshot is
\* the returned final_capital, whether the loop ended flat, long or short.
C4_Reconciliation ==
  pc = "done" =>
    /\ Len(portfolio_values) > 0
    /\ LastSnapshot.Portfolio_Value = final_capital

\* a run returned through a forced close of a position whose entry price
\* differs from the last close
C4_Witness ==
  /\ pc = "done"
  /\ position # 0
  /\ Len(trades) >= 2
  /\ IsForcedClose(LastTrade)
  /\ LastTrade.Price # trades[Len(trades) - 1].Price

\* floor(c / p) for p > 0, stated without the division operator
Floor(c, p) ==
  CHOOSE q \in -(c * c + 1)..(c * c + 1) : q * p <= c /\ c < (q + 1) * p

\* the entry rule of the running strategy holds on row i while flat
EntryRuleFires ==
  /\ pc = "loop" /\ i \in LoopIndices(NumRows)
  /\ position = 0
  /\ CASE strategy = "bollinger" -> BollingerBuySignal(i)
       [] strategy = "breakout"  -> BreakoutEntrySignal(i)
       [] strategy = "intraday"  ->
            ~LevelsNaN(i) /\ (IntradayLongSignal(i) \/ IntradayShortSignal(i))

\* C5: an iteration on which the entry rule fires while flat with cash c at
\* close p either, when floor(c/p) = 0, leaves trades, position, cash and
\* shares unchanged, or appends one open event with Shares = floor(c/p) and
\* Capital = c - floor(c/p)*p.
C5_PositionSizing ==
  [][ EntryRuleFires =>
        LET c == capital
            p == Row(i).Close
            q == Floor(c, p)
        IN  IF q = 0
            THEN UNCHANGED <<trades, position, capital, shares>>
            ELSE /\ Len(trades') = Len(trades) + 1
                 /\ IsOpen(trades'[Len(trades')])
                 /\ trades'[Len(trades')].Shares = q
                 /\ trades'[Len(trades')].Capital = c - q * p
    ]_vars

\* C6: the cash balance, and the Capital recorded on every event, is never
\* negative (every run starts from initial_capital > 0 and positive prices).
C6_NoNegativeCash ==
  /\ capital >= 0
  /\ \A k \in 1..Len(trades) : trades[k].Capital >= 0

\* C7: after every loop iteration the snapshot just recorded is dated at the
\* bar just processed, prices it at that bar's close, and values the
\* portfolio at cash when flat, cash + quantity*close when long and
\* cash + quantity*entry + quantity*(entry - close) when short.
C7_SnapshotValuation ==
  (pc = "loop" /\ Len(portfolio_values) > 0) =>
    LET sn == LastSnapshot
        close == df[sn.Date + 1].Close
    IN  /\ sn.Date = df[RowIdx(i - 1)].Date
        /\ sn.Stock_Price = close
        /\ sn.Portfolio_Value =
             (CASE position = 0  -> capital
                [] position = 1  -> capital + shares * close
                [] position = -1 -> capital + shares * entry_price
                                      + shares * (entry_price - close))

\* a short is held over a bar whose close differs from the entry price
C7_Witness ==
  /\ pc = "loop"
  /\ Len(portfolio_values) > 0
  /\ position = -1
  /\ LastSnapshot.Stock_Price # entry_price

\* C8: when a run has returned, the value curve has one snapshot for every
\* bar of the input series.
C8_OneSnapshotPerBar ==
  pc = "done" =>
    /\ Len(portfolio_values) = Len(df)
    /\ \A j \in 1..Len(df) : portfolio_values[j].Date = df[j].Date

\* every indicator the rules of strategy s read on bar d (0-based), on that
\* bar and on the bar before it, is defined
RequiredDefined(s, d) ==
  CASE s = "bollinger" -> BandDefined(d + 1) /\ BandDefined(d)
    [] s = "breakout"  -> /\ RollingDefined(d + 1, 20)
                          /\ RollingDefined(d + 1, 60)
                          /\ RollingDefined(d + 1, 10)
                          /\ RollingDefined(d + 1, 5)
                          /\ RollingDefined(d, 20)
    [] s = "intraday"  -> ShiftDefined(d + 1) /\ RollingDefined(d + 1, 10)

\* C9: every trade event is dated at a bar on which all indicators its
\* strategy reads are defined, and no breakout trade is dated before bar 60.
C9_NoSignalDuringWarmUp ==
  \A k \in 1..Len(trades) :
     /\ RequiredDefined(strategy, trades[k].Date)
     /\ strategy = "breakout" => trades[k].Date >= 60

\* a breakout run trades on bar 60, the first bar its loop evaluates
C9_Witness ==
  /\ strategy = "breakout"
  /\ Len(trades) > 0
  /\ trades[1].Date = 60

\* C10: event dates increase strictly along the trade list.
C10_DatesStrictlyIncreasing ==
  \A k \in 1..(Len(trades) - 1) : trades[k].Date < trades[k+1].Date

\* C11: when a backtest returns its result, the trade list strictly
\* alternates open and close events: it starts with an open, every open is
\* directly followed by a close of the same side (a SELL or SELL (Final)
\* after a BUY, a COVER or COVER (Final) after a SELL_SHORT), it ends with
\* a close, and so opens and closes are equal in number.
C11_TerminalAlternation ==
  pc = "done" =>
    /\ Len(trades) % 2 = 0
    /\ \A k \in 1..Len(trades) :
         IF k % 2 = 1
         THEN IsOpen(trades[k])
         ELSE /\ trades[k - 1].Action = "BUY" => IsLongClose(trades[k])
              /\ trades[k - 1].Action = "SELL_SHORT"
                   => IsShortClose(trades[k])
              /\ IsClose(trades[k])

\* a returned run with two round trips, the last one a short closed by the
\* forced cover
C11_Witness ==
  /\ pc = "done"
  /\ Len(trades) >= 4
  /\ LastTrade.Action = "COVER (Final)"

\* the step appended one trade with this Action
Emitted(action) ==
  /\ Len(trades') = Len(trades) + 1
  /\ trades'[Len(trades')].Action = action

\* the step left the trade list alone
NoEvent == trades' = trades

\* C12: on a bar the Bollinger backtest evaluates while flat, with a
\* non-zero affordable quantity, a BUY is emitted if and only if the
\* previous bar's close is <= the previous bar's lower band and the current
\* bar's close is > the current bar's lower band.
C12_BollingerEntryRule ==
  [][ (BollingerBar /\ position = 0 /\ Floor(capital, Row(i).Close) > 0)
        => (Emitted("BUY")
              <=> /\ LeLowerBand(Row(i - 1).Close, RowIdx(i - 1))
                  /\ GtLowerBand(Row(i).Close, RowIdx(i))) ]_vars

\* C13: on a bar the Bollinger backtest evaluates while long, a SELL of the
\* whole position at the bar's close is emitted if and only if that close
\* is >= the bar's own upper band (otherwise nothing is emitted), and the
\* Bollinger backtest never holds a short: position stays in {0, 1}.
C13_BollingerExitRule ==
  [][ BollingerBar =>
        /\ position' \in {0, 1}
        /\ position = 1 =>
             IF GeUpperBand(Row(i).Close, RowIdx(i))
             THEN /\ Emitted("SELL")
                  /\ trades'[Len(trades')].Price = Row(i).Close
                  /\ trades'[Len(trades')].Shares = shares
                  /\ position' = 0 /\ shares' = 0
             ELSE NoEvent /\ position' = 1 ]_vars

\* a long was held over at least one bar below the upper band and then
\* sold by the exit rule
C13_Witness ==
  /\ strategy = "bollinger"
  /\ Len(trades) >= 2
  /\ LastTrade.Action = "SELL"
  /\ LastTrade.Date > trades[Len(trades) - 1].Date + 1

EmittedSignal == trades'[Len(trades')].Signal

C15_TrailingOnly ==
  /\ trades # << >>
  /\ LastTrade.Action = "SELL" /\ LastTrade.Signal = "Below MA10"

C15_TakeProfitOnly ==
  /\ trades # << >>
  /\ LastTrade.Action = "SELL" /\ LastTrade.Signal = "Take Profit"

\* the intraday entry predicates of bar j, from the raw series: the levels
\* come from bar j-1 only.  PP = (pH+pL+pC)/3, BC = (pH+pL)/2,
\* TC = 2*PP - BC = (pH+pL+4*pC)/6, H1/L1 = pC +/- (pH-pL)*1.1/12.
EnoughVolume(j) == 100 * df[j].Volume > 12 * SumVolume(j, 10)

LongPredicate(j) ==
  LET pH == df[j-1].High
      pL == df[j-1].Low
      pC == df[j-1].Close
  IN  /\ 2 * df[j].Close > pH + pL
      /\ EnoughVolume(j)
      /\ 120 * df[j].High > 120 * pC + 11 * (pH - pL)

ShortPredicate(j) ==
  LET pH == df[j-1].High
      pL == df[j-1].Low
      pC == df[j-1].Close
  IN  /\ 6 * df[j].Close < pH + pL + 4 * pC
      /\ EnoughVolume(j)
      /\ 120 * df[j].Low < 120 * pC - 11 * (pH - pL)

\* floor(c / p) > 0 for a price p > 0
Affordable(c, p) == p > 0 /\ c >= p

FlatAffordableIntradayBar ==
  IntradayBar /\ position = 0 /\ Affordable(capital, Row(i).Close)

\* C16 as stated: on a flat, affordable intraday bar a long is opened when
\* the long predicate holds, a short is opened when the short predicate
\* holds, and nothing is opened when neither holds.
C16_IntradayEntryAsStated ==
  [][ FlatAffordableIntradayBar
        => /\ LongPredicate(RowIdx(i)) => Emitted("BUY")
           /\ ShortPredicate(RowIdx(i)) => Emitted("SELL_SHORT")
           /\ (~LongPredicate(RowIdx(i)) /\ ~ShortPredicate(RowIdx(i)))
                => NoEvent ]_vars

\* C16 (amended): on a flat, affordable intraday bar a long is opened when
\* the long predicate holds; a short is opened when the short predicate
\* holds and the long predicate does not; nothing is opened when neither
\* holds.  The levels are those of the previous bar only.
C16_IntradayEntryRules ==
  [][ FlatAffordableIntradayBar
        => /\ LongPredicate(RowIdx(i)) => Emitted("BUY")
           /\ (ShortPredicate(RowIdx(i)) /\ ~LongPredicate(RowIdx(i)))
                => Emitted("SELL_SHORT")
           /\ (~LongPredicate(RowIdx(i)) /\ ~ShortPredicate(RowIdx(i)))
                => NoEvent ]_vars

\* the scenario of the claim: previous bar H=110, L=90, C=100, current bar
\* close 98, low 97 with enough volume, and a SELL_SHORT at 98
C16_Witness ==
  /\ strategy = "intraday"
  /\ trades # << >>
  /\ LastTrade.Action = "SELL_SHORT" /\ LastTrade.Price = 98
  /\ LET j == LastTrade.Date + 1
     IN  /\ df[j].Low = 97 /\ EnoughVolume(j)
         /\ df[j-1].High = 110 /\ df[j-1].Low = 90 /\ df[j-1].Close = 100

\* both predicates held on a bar and a long was opened
C16_BothPredicates ==
  /\ strategy = "intraday"
  /\ trades # << >>
  /\ LastTrade.Action = "BUY"
  /\ ShortPredicate(LastTrade.Date + 1)

\* C17: on an intraday bar evaluated while long, the position is sold if
\* and only if high >= H3, or low <= L1, or close < PP, and the Signal is
\* that of the first of the three that holds, in this order; while short,
\* it is covered if and only if low <= L3, or high >= H1, or close > PP,
\* with the Signal of the first that holds.  The exit price is the bar's
\* close, and the levels are the bar's own (from the bar before it).
C17_IntradayExitPriority ==
  [][ IntradayBar =>
        LET j == RowIdx(i)
            pC == df[j-1].Close
            R == df[j-1].High - df[j-1].Low
            PPx3 == df[j-1].High + df[j-1].Low + pC
            h3 == 40 * df[j].High >= 40 * pC + 11 * R
            l1 == 120 * df[j].Low <= 120 * pC - 11 * R
            belowPP == 3 * df[j].Close < PPx3
            l3 == 40 * df[j].Low <= 40 * pC - 11 * R
            h1 == 120 * df[j].High >= 120 * pC + 11 * R
            abovePP == 3 * df[j].Close > PPx3
        IN  /\ position = 1 =>
                 IF h3 \/ l1 \/ belowPP
                 THEN /\ Emitted("SELL")
                      /\ trades'[Len(trades')].Price = df[j].Close
                      /\ EmittedSignal =
                           (IF h3 THEN "H3 take profit"
                            ELSE IF l1 THEN "L1 stop loss"
                            ELSE "below PP stop")
                 ELSE NoEvent /\ position' = 1
            /\ position = -1 =>
                 IF l3 \/ h1 \/ abovePP
                 THEN /\ Emitted("COVER")
                      /\ trades'[Len(trades')].Price = df[j].Close
                      /\ EmittedSignal =
                           (IF l3 THEN "L3 take profit"
                            ELSE IF h1 THEN "H1 stop loss"
                            ELSE "above PP stop")
                 ELSE NoEvent /\ position' = -1 ]_vars

\* a long sold with the take-profit Signal on a bar whose low was also at
\* or below L1
C17_Witness ==
  /\ strategy = "intraday"
  /\ trades # << >>
  /\ LastTrade.Action = "SELL" /\ LastTrade.Signal = "H3 take profit"
  /\ LET j == LastTrade.Date + 1
     IN  120 * df[j].Low <= L1_x120(j)

\* C18: in the intraday backtest, opening a short of q shares at price e
\* lowers cash by exactly q*e, and covering it at price c, by an exit rule
\* or by the forced cover, raises cash by exactly q*e + q*(e - c); the
\* cash after the cover is the cash before the short plus q*(e - c).
C18_ShortAccounting ==
  [][ /\ (IntradayBar /\ Emitted("SELL_SHORT"))
           => LET ev == trades'[Len(trades')]
              IN  /\ capital' = capital - ev.Shares * ev.Price
                  /\ shares' = ev.Shares /\ entry_price' = ev.Price
      /\ ((IntradayBar /\ Emitted("COVER"))
            \/ (IntradayReturn /\ Emitted("COVER (Final)")))
           => LET ev == trades'[Len(trades')]
                  op == trades[Len(trades)]
                  q == op.Shares
                  e == op.Price
                  c == ev.Price
              IN  /\ op.Action = "SELL_SHORT" /\ ev.Shares = q
                  /\ capital' = capital + q * e + q * (e - c)
                  /\ capital' = (op.Capital + q * e) + q * (e - c) ]_vars

\* a short covered by an exit rule at a loss (c > e)
C18_Witness ==
  /\ strategy = "intraday"
  /\ Len(trades) >= 2
  /\ LastTrade.Action = "COVER"
  /\ LastTrade.Price > trades[Len(trades) - 1].Price

\* the minimum lookback the claim names for each backtest
MinimumLookback(s) ==
  CASE s = "bollinger" -> 20
    [] s = "breakout"  -> 60
    [] s = "intraday"  -> 20

\* C19: a run on a series shorter than the backtest's minimum lookback (20
\* bars for Bollinger and intraday, 60 for breakout) returns no result
\* before any bar is evaluated: the loop is never entered and there are no
\* trades and no snapshots.
C19_InsufficientData ==
  Len(df) < MinimumLookback(strategy)
    => /\ pc \in {"start", "none"}
       /\ i = 0
       /\ trades = << >>
       /\ portfolio_values = << >>

\* a Bollinger call on a series shorter than its lookback has returned None
C19_Witness ==
  /\ strategy = "bollinger"
  /\ Len(df) < MinimumLookback(strategy)
  /\ pc = "none"

\* C20: a run with initial_capital <= 0 fails before any bar is evaluated:
\* it never appends a trade or a snapshot (every evaluated bar appends a
\* snapshot) and never returns a result record.
C20_InvalidCapital ==
  initial_capital <= 0
    => /\ trades = << >>
       /\ portfolio_values = << >>
       /\ pc # "done"

\* the call has returned or raised
Returned == pc \in {"done", "none", "raised"}

\* C21: the Bollinger backtest on 25 bars (20 at 100, a dip to 90, a
\* rebound to 95, then 95 to the end) returns a result whose trade list is
\* exactly one BUY dated at the rebound bar followed by one forced close at
\* the last bar.
C21_BollingerScenario ==
  (df = DipAndRebound(window + 5, << >>) /\ Returned)
    => /\ pc = "done"
       /\ Len(trades) = 2
       /\ trades[1].Action = "BUY" /\ trades[1].Date = window + 1
       /\ trades[2].Action = "SELL (Final)"
       /\ trades[2].Date = Len(df) - 1

\* the trades with this Action
TradesWith(action) == { k \in 1..Len(trades) : trades[k].Action = action }

\* C22: the breakout backtest on 61 flat bars at 50 followed by one bar at
\* 60 with three times the usual volume returns a result with exactly one
\* BUY, dated at the final bar, and no trade event before it.
C22_BreakoutScenario ==
  (/\ df = MakeSeries(BreakoutMinLen + 2, BreakoutMinLen + 2,
                      << BreakoutScenarioBar >>, BreakoutScenarioFlatBar)
   /\ Returned)
    => /\ pc = "done"
       /\ Cardinality(TradesWith("BUY")) = 1
       /\ trades[1].Action = "BUY"
       /\ trades[1].Date = Len(df) - 1

RunsOfIteration ==
  IF batch_pc = "batch_backtest" THEN {"bollinger"}
  ELSE IF strategy_choice = "multi" THEN Strategies
  ELSE {strategy_choice}

\* the instrument of the iteration has no usable data, or one of its runs
\* returns None or raises
IterationFails ==
  LET stock == stocks[stock_i]
  IN  \/ stock.len = 0
      \/ \E s \in RunsOfIteration : BacktestOutcome(s, stock) # "result"

\* C25: every iteration of a batch loop moves on to the next instrument;
\* it adds one to exactly one of the two counts, and to the failed count
\* when the instrument has missing data, a None result or an exception;
\* the rows of the
\* results table come only from runs that returned a result; and when
\* the loop is over, successful + failed = number of instruments.
C25_BatchFailureIsolation ==
  [][ /\ (BatchBacktestIteration \/ ExecuteBatchIteration)
           => /\ stock_i' = stock_i + 1
              /\ \/ /\ failed_count' = failed_count + 1
                    /\ successful_count' = successful_count
                 \/ /\ successful_count' = successful_count + 1
                    /\ failed_count' = failed_count
              /\ IterationFails => failed_count' = failed_count + 1
              /\ \A k \in 1..Len(results') :
                    BacktestOutcome(results'[k].strategy,
                                    stocks[results'[k].stock]) = "result"
      /\ BatchFinish
           => successful_count + failed_count = Len(stocks) ]_vars

OpenActions == {"BUY", "SELL_SHORT"}

CloseActions == {"SELL", "COVER", "SELL (Final)", "COVER (Final)"}

\* the open that a close at position k of the trade list matches: the last
\* open before it (0 when there is none)
MatchingOpen(k) ==
  LET opens == { j \in 1..(k-1) : trades[j].Action \in OpenActions }
  IN  IF opens = {} THEN 0 ELSE CHOOSE j \in opens : \A m \in opens : m <= j

\* C26: in the trade list of every backtest, each close (by an exit rule or
\* forced) carries a realized return equal to (exit - entry)/entry*100 on a
\* long and (entry - exit)/entry*100 on a short, entry being the price of
\* the matching open, and no open carries a realized return.
C26_RealizedReturnOnCloses ==
  \A k \in 1..Len(trades) :
    IF trades[k].Action \in OpenActions
    THEN ~trades[k].Return.present
    ELSE /\ trades[k].Return.present
         /\ MatchingOpen(k) # 0
         /\ LET entry == trades[MatchingOpen(k)].Price
                exit == trades[k].Price
                gain == IF trades[MatchingOpen(k)].Action = "BUY"
                        THEN exit - entry ELSE entry - exit
            IN  trades[k].Return.num * entry
                  = gain * 100 * trades[k].Return.den

FinalActions == {"SELL (Final)", "COVER (Final)"}

\* two consecutive events share a date only when they are the last two of
\* the list, an open from the loop on the last bar and its forced close
OneLoopEventPerBar ==
  \A k \in 1..(Len(trades) - 1) :
    /\ trades[k].Date <= trades[k+1].Date
    /\ trades[k].Date = trades[k+1].Date
         => /\ k + 1 = Len(trades)
            /\ trades[k].Action \in OpenActions
            /\ trades[k+1].Action \in FinalActions
            /\ trades[k].Date = LastRow.Date

\* C27: an iteration of the per-bar loop of any of the three backtests
\* appends at most one trade event, and no two events of the trade list
\* carry the same bar's date except an open made by the loop on the last
\* bar followed by the forced close; so a position opened on a bar is not
\* closed by an exit rule on that bar and no position is opened on the bar
\* of an exit.
C27_OneEventPerBar ==
  [][ /\ (BollingerBar \/ BreakoutBar \/ IntradayBar)
           => Len(trades') <= Len(trades) + 1
      /\ OneLoopEventPerBar' ]_vars

\* a run that closed a position by an exit rule, opened another one later
\* and, on the last bar, opened a position that the forced close ended
C27_Witness ==
  /\ pc = "done"
  /\ Len(trades) >= 4
  /\ trades[Len(trades)].Date = trades[Len(trades) - 1].Date
  /\ trades[2].Action \in {"SELL", "COVER"}

\* C28: on an intraday bar evaluated while flat on which both the long and
\* the short entry predicate hold, a long is opened and no short when the
\* quantity is affordable; and on a flat bar where the long predicate holds
\* and the affordable quantity is 0, nothing is opened, whatever the short
\* predicate says.
C28_LongBeforeShort ==
  [][ (IntradayBar /\ position = 0 /\ ~LevelsNaN(i)
         /\ LongPredicate(RowIdx(i)))
        => IF Affordable(capital, Row(i).Close)
           THEN ShortPredicate(RowIdx(i))
                  => (Emitted("BUY") /\ position' = 1)
           ELSE NoEvent /\ position' = 0 ]_vars

\* a long was opened on a bar with BC < close < TC where the short
\* predicate held as well
C28_Witness ==
  /\ strategy = "intraday"
  /\ position = 1
  /\ trades # << >>
  /\ LastTrade.Action = "BUY"
  /\ LongPredicate(LastTrade.Date + 1)
  /\ ShortPredicate(LastTrade.Date + 1)

\* both predicates held on the bar just evaluated, the quantity was 0 and
\* nothing was opened
C28_Unaffordable ==
  /\ strategy = "intraday"
  /\ pc = "loop"
  /\ i > 1
  /\ LongPredicate(RowIdx(i - 1))
  /\ ShortPredicate(RowIdx(i - 1))
  /\ ~Affordable(capital, Row(i - 1).Close)
  /\ trades = << >>

\* every close records the Shares of the open just before it
ClosesWholePosition ==
  \A k \in 1..Len(trades) :
    trades[k].Action \in CloseActions
      => /\ k > 1
         /\ trades[k-1].Action \in OpenActions
         /\ trades[k].Shares = trades[k-1].Shares

\* flat after an exit rule has fired, with no shares held
FlatAfterExitHoldsNothing ==
  (position = 0 /\ \E k \in 1..Len(trades) : trades[k].Action \in {"SELL", "COVER"})
    => shares = 0

\* C29: in every backtest each close or forced close records the Shares of
\* the open immediately before it, the quantity held does not change while
\* a position stays open, and whenever the position is flat after an exit
\* rule fired the shares held are 0.
C29_FullLiquidation ==
  [][ /\ ClosesWholePosition'
      /\ (position # 0 /\ position' = position) => shares' = shares
      /\ FlatAfterExitHoldsNothing' ]_vars

\* the two parts of C29 on recorded quantities and open positions
C29_WithoutFlatPart ==
  [][ /\ ClosesWholePosition'
      /\ (position # 0 /\ position' = position) => shares' = shares ]_vars

\* the flat part of C29 in states whose cash never went negative
C29_FlatPartWithCash ==
  C6_NoNegativeCash => FlatAfterExitHoldsNothing

\* the Portfolio_Value of the snapshot the step appended
RecordedValue == portfolio_values'[Len(portfolio_values')].Portfolio_Value

\* C30: in every backtest the Portfolio_Value recorded on a bar where a
\* position is opened (long or short) is the cash held just before the
\* open, the one recorded on a bar where a position is closed is the cash
\* just after the close, and on a bar that starts and ends flat it is the
\* unchanged cash, equal to the value recorded on the bar before.
C30_ValueNeutralTrades ==
  [][ (BollingerBar \/ BreakoutBar \/ IntradayBar)
        => /\ (position = 0 /\ position' # 0) => RecordedValue = capital
           /\ (position # 0 /\ position' = 0) => RecordedValue = capital'
           /\ (position = 0 /\ position' = 0)
                => /\ RecordedValue = capital
                   /\ capital' = capital
                   /\ portfolio_values # << >>
                        => RecordedValue = LastSnapshot.Portfolio_Value
    ]_vars

\* a short has just been opened, after an earlier position was closed: the
\* snapshot of the bar is the cash before the open, which the reserve
\* lowered
C30_Witness ==
  /\ pc = "loop"
  /\ position = -1
  /\ Len(trades) >= 3
  /\ portfolio_values # << >>
  /\ LastTrade.Date = LastSnapshot.Date
  /\ LastSnapshot.Portfolio_Value = capital + shares * entry_price
  /\ LastSnapshot.Portfolio_Value # capital

=============================================================================
